---------------------------- MODULE Spec2Model ----------------------------
(***************************************************************************)
(* A model of the supply-chain cost library: the Monte Carlo trial runner  *)
(* (v1/simulator.py), the cost items and cost structures (v1/cost.py) and  *)
(* the product with its Economic Order Quantity (v1/product.py).           *)
(*                                                                         *)
(* Decimal values are modelled as integers.  A quotient of two decimals is *)
(* kept as an exact fraction <<numerator, denominator>>, and the floating  *)
(* point square root is kept in fixed point with Scale steps per unit.     *)
(*                                                                         *)
(* Four specifications share the variables and the initial state:          *)
(*   SpecSim      the trial runner, its runs and its "with" scope;         *)
(*   SpecCost     Cost objects and the cost structure of a center;         *)
(*   SpecProduct  a product, its cost structures and its EOQ;              *)
(*   SpecNormal   calls of Simulator.normal over a grid of arguments.      *)
(* Each leaves the parts of the state it is not about as they are.         *)
(*                                                                         *)
(* The body of a "with" statement is modelled as the source uses it: runs  *)
(* and reads of the runner, none of which catches a failure of a trial.    *)
(* Outside a "with" statement the caller may catch a failure and go on.    *)
(***************************************************************************)
EXTENDS Integers, Sequences, FiniteSets, TLC

VARIABLES
    \* ---- v1/simulator.py: the Simulator object and its caller ----
    times,          \* Simulator.times
    title,          \* Simulator.title ("" before construction)
    results,        \* Simulator.results
    pc,             \* "new" | "idle" | "running" | "returned" | "raised"
    test_number,    \* the loop variable of decorated()
    exc,            \* the exception the last operation surfaced to its caller
    scope,          \* the "with" statement: "none" | "open" | "done" | "failed"
    printed,        \* number of summary blocks written to STDOUT
    out,            \* what the caller saw last: a summary block on STDOUT, or
                    \* the value read from average/maximum/minimum
    \* ---- history of the runner, read only by the properties ----
    accepted,       \* the Decimal values fn returned, in call order
    runStart,       \* results when the current run started
    fnCalls,        \* invocations of fn in the current run
    failedAt,       \* test_number of the iteration that failed, or -1
    runs,           \* runs started so far
    printedAtEnter, \* printed when the scope was entered
    \* ---- v1/cost.py and v1/product.py ----
    heap,           \* the Cost objects: CostIds -> [name, value]
    costs,          \* the Costs structures: attribute -> (key -> CostId or 0)
    kind,           \* "None" | "Produced" | "Purchased"
    demand,         \* Product.demand
    ret,            \* outcome of the last cost/product operation
    \* ---- Simulator.normal ----
    nargs,          \* the arguments of the call
    nret            \* its outcome

simVars == <<times, title, results, pc, test_number, exc, scope, printed, out,
             accepted, runStart, fnCalls, failedAt, runs, printedAtEnter>>
costVars == <<heap, costs, kind, demand, ret>>
normVars == <<nargs, nret>>
vars == <<simVars, costVars, normVars>>

---------------------------------------------------------------------------
(* Bounds of the model.                                                    *)

MaxTimes == 2
MaxRuns == 2
MaxPrinted == 1
MaxValue == 2
MaxArg == 2
Scale == 10

\* The Decimal values a trial function returns.
DecimalValues == {1, 2}

---------------------------------------------------------------------------
(* Arithmetic helpers.                                                     *)

RECURSIVE Gcd(_, _)
Gcd(a, b) == IF b = 0 THEN a ELSE Gcd(b, a % b)

Abs(x) == IF x < 0 THEN -x ELSE x

\* The exact quotient n / d (d # 0) as a fraction in lowest terms.
Quotient(n, d) ==
    LET g == Gcd(Abs(n), Abs(d))
        s == IF d < 0 THEN -1 ELSE 1
    IN  <<s * (n \div g), s * (d \div g)>>

RECURSIVE SumSeq(_)
SumSeq(s) == IF s = <<>> THEN 0 ELSE Head(s) + SumSeq(Tail(s))

RECURSIVE MaxSeq(_)
MaxSeq(s) ==
    IF Len(s) = 1 THEN Head(s)
    ELSE LET m == MaxSeq(Tail(s)) IN IF Head(s) >= m THEN Head(s) ELSE m

RECURSIVE MinSeq(_)
MinSeq(s) ==
    IF Len(s) = 1 THEN Head(s)
    ELSE LET m == MinSeq(Tail(s)) IN IF Head(s) <= m THEN Head(s) ELSE m

IsPrefix(s, t) == Len(s) <= Len(t) /\ SubSeq(t, 1, Len(s)) = s

---------------------------------------------------------------------------
(* v1/simulator.py: the trial runner.                                      *)

Titles == {"", "Example"}

\* What one invocation of the caller's fn() does: it returns a Decimal,
\* returns a value that is no Decimal (the int literal 7), or raises.
TrialOutcomes ==
    {<<"Decimal", v>> : v \in DecimalValues} \cup {<<"int", 7>>, <<"raise", 0>>}

\* Simulator.average: sum(results) / len(results), or Decimal(0) when empty.
average ==
    IF results # <<>> THEN Quotient(SumSeq(results), Len(results)) ELSE <<0, 1>>

\* Simulator.maximum
maximum == IF results # <<>> THEN MaxSeq(results) ELSE 0

\* Simulator.minimum
minimum == IF results # <<>> THEN MinSeq(results) ELSE 0

\* The block summary() prints.
SummaryBlock ==
    [title |-> title, times |-> times, average |-> average,
     maximum |-> maximum, minimum |-> minimum]

NoRead == <<"none", 0>>

\* The number of iterations of decorated(): range(self.times).
LoopBoundOffByOne == times + 1
LoopBound == times

\* self.results.append(result)
RecordAtFront(rs, r) == <<r>> \o rs
Record(rs, r) == Append(rs, r)

simHistory == <<accepted, runStart, fnCalls, failedAt, runs, printedAtEnter>>

\* The parts of the state the runner does not touch.
notSim == <<costVars, normVars>>

\* The caller may start an operation on the runner: it is constructed, no run
\* is in progress, and no exception is on its way out of a "with" body.
CallerFree ==
    /\ pc \in {"idle", "returned", "raised"}
    /\ (scope = "open" => exc = "None")

\* Simulator(times, title)
Construct(t, ttl) ==
    /\ pc = "new"
    /\ IF t < 0
       THEN /\ exc' = "AttributeError"
            /\ UNCHANGED <<times, title, results, pc>>
       ELSE IF ttl = ""
       THEN /\ exc' = "TypeError"
            /\ UNCHANGED <<times, title, results, pc>>
       ELSE /\ times' = t
            /\ title' = ttl
            /\ results' = <<>>
            /\ pc' = "idle"
            /\ exc' = "None"
    /\ UNCHANGED <<test_number, scope, printed, out, simHistory, notSim>>

\* with simulator: ...   (__enter__ returns self)
Enter ==
    /\ CallerFree
    /\ scope # "open"
    /\ printed < MaxPrinted
    /\ scope' = "open"
    /\ exc' = "None"
    /\ printedAtEnter' = printed
    /\ UNCHANGED <<times, title, results, pc, test_number, printed, out,
                   accepted, runStart, fnCalls, failedAt, runs, notSim>>

\* decorated(fn) is called (simulator.simulate()(fn)): the loop starts.
Decorated ==
    /\ CallerFree
    /\ runs < MaxRuns
    /\ pc' = "running"
    /\ test_number' = 0
    /\ exc' = "None"
    /\ runs' = runs + 1
    /\ runStart' = results
    /\ fnCalls' = 0
    /\ failedAt' = -1
    /\ UNCHANGED <<times, title, results, scope, printed, out, accepted,
                   printedAtEnter, notSim>>

\* One iteration of the loop of decorated(): fn() is invoked; a value that is
\* no Decimal raises TypeError, a Decimal is appended to results.
TrialAppendFirst(o) ==
    /\ pc = "running"
    /\ test_number < LoopBound
    /\ fnCalls' = fnCalls + 1
    /\ IF o[1] = "raise"
       THEN /\ pc' = "raised"
            /\ exc' = "TrialRaised"
            /\ failedAt' = test_number
            /\ UNCHANGED <<results, test_number, accepted>>
       ELSE IF o[1] # "Decimal"
       THEN /\ results' = Record(results, o[2])
            /\ pc' = "raised"
            /\ exc' = "TypeError"
            /\ failedAt' = test_number
            /\ UNCHANGED <<test_number, accepted>>
       ELSE /\ results' = Record(results, o[2])
            /\ accepted' = Append(accepted, o[2])
            /\ test_number' = test_number + 1
            /\ UNCHANGED <<pc, exc, failedAt>>
    /\ UNCHANGED <<times, title, scope, printed, out, runStart, runs,
                   printedAtEnter, notSim>>

Trial(o) ==
    /\ pc = "running"
    /\ test_number < LoopBound
    /\ fnCalls' = fnCalls + 1
    /\ IF o[1] = "raise"
       THEN /\ pc' = "raised"
            /\ exc' = "TrialRaised"
            /\ failedAt' = test_number
            /\ UNCHANGED <<results, test_number, accepted>>
       ELSE IF o[1] # "Decimal"
       THEN /\ pc' = "raised"
            /\ exc' = "TypeError"
            /\ failedAt' = test_number
            /\ UNCHANGED <<results, test_number, accepted>>
       ELSE /\ results' = Record(results, o[2])
            /\ accepted' = Append(accepted, o[2])
            /\ test_number' = test_number + 1
            /\ UNCHANGED <<pc, exc, failedAt>>
    /\ UNCHANGED <<times, title, scope, printed, out, runStart, runs,
                   printedAtEnter, notSim>>

\* range(self.times) is exhausted: decorated() returns.
LoopExit ==
    /\ pc = "running"
    /\ test_number >= LoopBound
    /\ pc' = "returned"
    /\ UNCHANGED <<times, title, results, test_number, exc, scope, printed, out, simHistory, notSim>>

\* __exit__(exc_type, exc_value, exc_tb): the "with" body has ended, normally
\* or by an exception.
ExitAlwaysSummary ==
    /\ scope = "open"
    /\ pc # "running"
    /\ printed' = printed + 1
    /\ out' = <<"summary", SummaryBlock>>
    /\ scope' = IF exc = "None" THEN "done" ELSE "failed"
    /\ exc' = "None"
    /\ UNCHANGED <<times, title, results, pc, test_number, simHistory, notSim>>

Exit ==
    /\ scope = "open"
    /\ pc # "running"
    /\ IF exc = "None"
       THEN /\ printed' = printed + 1
            /\ out' = <<"summary", SummaryBlock>>
            /\ scope' = "done"
            /\ exc' = "None"
       ELSE /\ scope' = "failed"
            /\ exc' = "RuntimeError"
            /\ UNCHANGED <<printed, out>>
    /\ UNCHANGED <<times, title, results, pc, test_number, simHistory, notSim>>

\* simulator.summary() called directly, outside a "with" statement.
Summary ==
    /\ CallerFree
    /\ scope # "open"
    /\ printed < MaxPrinted
    /\ printed' = printed + 1
    /\ out' = <<"summary", SummaryBlock>>
    /\ exc' = "None"
    /\ UNCHANGED <<times, title, results, pc, test_number, scope, simHistory, notSim>>

\* A read of simulator.average, simulator.maximum or simulator.minimum.
ReadAverage ==
    /\ CallerFree
    /\ out' = <<"average", average>>
    /\ exc' = "None"
    /\ UNCHANGED <<times, title, results, pc, test_number, scope, printed,
                   simHistory, notSim>>

ReadMaximum ==
    /\ CallerFree
    /\ out' = <<"maximum", maximum>>
    /\ exc' = "None"
    /\ UNCHANGED <<times, title, results, pc, test_number, scope, printed,
                   simHistory, notSim>>

ReadMinimum ==
    /\ CallerFree
    /\ out' = <<"minimum", minimum>>
    /\ exc' = "None"
    /\ UNCHANGED <<times, title, results, pc, test_number, scope, printed,
                   simHistory, notSim>>

SimIdle ==
    /\ times = 0
    /\ title = ""
    /\ results = <<>>
    /\ pc = "new"
    /\ test_number = 0
    /\ exc = "None"
    /\ scope = "none"
    /\ printed = 0
    /\ out = NoRead
    /\ accepted = <<>>
    /\ runStart = <<>>
    /\ fnCalls = 0
    /\ failedAt = -1
    /\ runs = 0
    /\ printedAtEnter = 0

NextSim ==
    \/ \E t \in -1..MaxTimes, ttl \in Titles : Construct(t, ttl)
    \/ Enter
    \/ Decorated
    \/ \E o \in TrialOutcomes : Trial(o)
    \/ LoopExit
    \/ Exit
    \/ Summary
    \/ ReadAverage
    \/ ReadMaximum
    \/ ReadMinimum


---------------------------------------------------------------------------
(* v1/cost.py: Cost and Costs.                                             *)

CostIds == {1, 2}
Names == {"a", "b"}
\* The numbers a caller passes as a value or a demand.
Values == -1..MaxValue
\* An argument: a number, a value that is no number (None), or no argument.
Numbers == {<<"num", v>> : v \in Values}
NotANumber == <<"None", 0>>
Missing == <<"missing", 0>>

\* The attributes that hold a Costs structure.
\* Center.costs, and the three a product may have.
CollNames == {"costs", "storage_costs", "production_costs", "purchase_costs"}

\* A slot of the heap that holds no Cost object.
NoCost == [name |-> "", value |-> 0]

NoRet == [op |-> "none", status |-> "ok", msg |-> "", val |-> 0]
Ret(op, status, msg, val) == [op |-> op, status |-> status, msg |-> msg, val |-> val]

\* The parts of the state the costs and the product do not touch.
notCost == <<simVars, normVars>>

\* Cost.name setter: the exception it raises, or "ok".
NameSetter(n) == IF n = "" THEN "AttributeError" ELSE "ok"

\* Cost.value setter (also Product.demand setter, which has the same body):
\* the value is stored first and validated afterwards.
\* Result: <<exception or "ok", whether the field was assigned>>.
ValueSetter(x) ==
    IF x[1] # "num" THEN <<"AttributeError", FALSE>>
    ELSE IF x[2] < 0 THEN <<"ValueError", TRUE>>
    ELSE <<"ok", TRUE>>

\* Cost.__init__(name, value): value has no default, so a call without it
\* raises TypeError before the body runs; then the two setters run in turn.
CostInit(n, x) ==
    IF x = Missing THEN "TypeError"
    ELSE IF NameSetter(n) # "ok" THEN NameSetter(n)
    ELSE ValueSetter(x)[1]

\* Cost(n, x): a new object, kept by the caller only if __init__ returns.
NewCost(id, n, x) ==
    /\ heap[id] = NoCost
    /\ \A j \in CostIds : j < id => heap[j] # NoCost
    /\ IF CostInit(n, x) = "ok"
       THEN heap' = [heap EXCEPT ![id] = [name |-> n, value |-> x[2]]]
       ELSE UNCHANGED heap
    /\ ret' = Ret("new", CostInit(n, x), "", 0)
    /\ UNCHANGED <<costs, kind, demand, notCost>>

\* cost.value = x
SetValue(id, x) ==
    /\ heap[id] # NoCost
    /\ IF ValueSetter(x)[2]
       THEN heap' = [heap EXCEPT ![id].value = x[2]]
       ELSE UNCHANGED heap
    /\ ret' = Ret("set_value", ValueSetter(x)[1], "", 0)
    /\ UNCHANGED <<costs, kind, demand, notCost>>

\* cost.name = n
SetName(id, n) ==
    /\ heap[id] # NoCost
    /\ IF NameSetter(n) = "ok"
       THEN heap' = [heap EXCEPT ![id].name = n]
       ELSE UNCHANGED heap
    /\ ret' = Ret("set_name", NameSetter(n), "", 0)
    /\ UNCHANGED <<costs, kind, demand, notCost>>

\* The Costs structures that exist: the one of the center, made with it, and
\* those of the product once it is constructed.
Has(c) ==
    \/ c = "costs"
    \/ c = "storage_costs" /\ kind # "None"
    \/ c = "production_costs" /\ kind = "Produced"
    \/ c = "purchase_costs" /\ kind = "Purchased"

\* self.__costs[cost.name] = cost
StoreKeepFirst(d, id) ==
    IF d[heap[id].name] = 0 THEN [d EXCEPT ![heap[id].name] = id] ELSE d
Store(d, id) == [d EXCEPT ![heap[id].name] = id]

\* Costs.add(cost); id 0 stands for an argument that is no Cost.
Add(c, id) ==
    /\ Has(c)
    /\ id # 0 => heap[id] # NoCost
    /\ IF id = 0
       THEN /\ ret' = Ret("add", "AttributeError", c, id)
            /\ UNCHANGED costs
       ELSE /\ costs' = [costs EXCEPT ![c] = Store(costs[c], id)]
            /\ ret' = Ret("add", "ok", c, id)
    /\ UNCHANGED <<heap, kind, demand, notCost>>

\* Costs.get(name): the default Cost(name) is built before the lookup.
Get(c, n) ==
    /\ Has(c)
    /\ IF CostInit(n, Missing) # "ok"
       THEN ret' = Ret("get", CostInit(n, Missing), n, 0)
       ELSE IF costs[c][n] # 0
       THEN ret' = Ret("get", "ok", heap[costs[c][n]].name, heap[costs[c][n]].value)
       ELSE ret' = Ret("get", "ok", n, 0)
    /\ UNCHANGED <<heap, costs, kind, demand, notCost>>

\* sum([cost.value for cost in self.__costs.values()])
RECURSIVE SumValues(_, _)
SumValues(d, keys) ==
    IF keys = {} THEN 0
    ELSE LET n == CHOOSE k \in keys : TRUE
         IN  (IF d[n] = 0 THEN 0 ELSE heap[d[n]].value) + SumValues(d, keys \ {n})

\* Costs.total
Total(c) == SumValues(costs[c], Names)

ReadTotal(c) ==
    /\ Has(c)
    /\ ret' = Ret("total", "ok", c, Total(c))
    /\ UNCHANGED <<heap, costs, kind, demand, notCost>>

---------------------------------------------------------------------------
(* v1/product.py: Product, ProducedProduct, PurchasedProduct.              *)

Kinds == {"Produced", "Purchased"}

\* ProducedProduct(name, demand=x) or PurchasedProduct(name, demand=x):
\* Product.__init__ runs the setters, then the Costs structures are made.
NewProduct(k, x) ==
    /\ kind = "None"
    /\ IF ValueSetter(x)[1] = "ok"
       THEN /\ kind' = k
            /\ demand' = x[2]
       ELSE UNCHANGED <<kind, demand>>
    /\ ret' = Ret("new_product", ValueSetter(x)[1], "", 0)
    /\ UNCHANGED <<heap, costs, notCost>>

\* product.demand = x
SetDemand(x) ==
    /\ kind # "None"
    /\ IF ValueSetter(x)[2]
       THEN demand' = x[2]
       ELSE UNCHANGED demand
    /\ ret' = Ret("set_demand", ValueSetter(x)[1], "", 0)
    /\ UNCHANGED <<heap, costs, kind, notCost>>

\* Product.total_storage_cost
total_storage_cost == Total("storage_costs")

\* ProducedProduct.total_variable_cost / PurchasedProduct.total_variable_cost
total_variable_cost ==
    IF kind = "Produced" THEN Total("production_costs") ELSE Total("purchase_costs")

\* math.sqrt(n / d) for n / d >= 0, in fixed point: the largest q with
\* (q / Scale)^2 <= n / d, where d > 0.
RECURSIVE SqrtFrom(_, _, _)
SqrtFrom(q, n, d) ==
    IF (q + 1) * (q + 1) * d <= n * Scale * Scale THEN SqrtFrom(q + 1, n, d) ELSE q

Sqrt(n, d) == SqrtFrom(0, n, d)

\* Product.optimum_inventory_level
EoqWithoutFactor(D, K, h) ==
    IF D = 0 THEN Ret("eoq", "RuntimeError", "demand", 0)
    ELSE IF h = 0 THEN Ret("eoq", "RuntimeError", "storage", 0)
    ELSE IF K = 0 THEN Ret("eoq", "RuntimeError", "variable", 0)
    ELSE LET x == Quotient(D * K, h)
         IN  IF x[1] < 0 THEN Ret("eoq", "ValueError", "math domain error", 0)
             ELSE Ret("eoq", "ok", "", Sqrt(x[1], x[2]))
EoqWithoutVariableCheck(D, K, h) ==
    IF D = 0 THEN Ret("eoq", "RuntimeError", "demand", 0)
    ELSE IF h = 0 THEN Ret("eoq", "RuntimeError", "storage", 0)
    ELSE LET x == Quotient(2 * D * K, h)
         IN  IF x[1] < 0 THEN Ret("eoq", "ValueError", "math domain error", 0)
             ELSE Ret("eoq", "ok", "", Sqrt(x[1], x[2]))
Eoq(D, K, h) ==
    IF D = 0 THEN Ret("eoq", "RuntimeError", "demand", 0)
    ELSE IF h = 0 THEN Ret("eoq", "RuntimeError", "storage", 0)
    ELSE IF K = 0 THEN Ret("eoq", "RuntimeError", "variable", 0)
    ELSE LET x == Quotient(2 * D * K, h)
         IN  IF x[1] < 0 THEN Ret("eoq", "ValueError", "math domain error", 0)
             ELSE Ret("eoq", "ok", "", Sqrt(x[1], x[2]))

ReadOptimum ==
    /\ kind # "None"
    /\ ret' = Eoq(demand, total_variable_cost, total_storage_cost)
    /\ UNCHANGED <<heap, costs, kind, demand, notCost>>

---------------------------------------------------------------------------
(* Simulator.normal(mean, std, upper, lower).                              *)

\* The numbers a caller passes to normal().
Args == -1..MaxArg

NoCall == [mean |-> 0, std |-> 0, upper |-> 0, lower |-> 0]
NoOutcome == [status |-> "none", msg |-> "", drawn |-> FALSE, value |-> 0]
Outcome(status, msg, drawn, value) ==
    [status |-> status, msg |-> msg, drawn |-> drawn, value |-> value]

\* x <= y for fractions with positive denominators.
FracLeq(x, y) == x[1] * y[2] <= y[1] * x[2]
FracLess(x, y) == x[1] * y[2] < y[1] * x[2]

\* The outcomes of one call.  The standardized bounds are a = (lower - mean) / std
\* and b = (upper - mean) / std; the distribution is defined for a < b only and
\* rvs() rejects other arguments; a sample z in [a, b] is shifted and scaled back
\* to mean + std * z.  The samples are the z with std * z an integer.
NormalWithoutLowCheck(mean, std, upper, lower) ==
    IF mean > upper THEN {Outcome("ValueError", "Mean is too high", FALSE, 0)}
    ELSE IF std = 0 THEN {Outcome("ZeroDivisionError", "", FALSE, 0)}
    ELSE LET a == Quotient(lower - mean, std)
             b == Quotient(upper - mean, std)
         IN  IF ~ FracLess(a, b)
             THEN {Outcome("ValueError", "Domain error in arguments", FALSE, 0)}
             ELSE {Outcome("ok", "", TRUE, mean + w) :
                     w \in {w \in (-MaxArg - 2)..(MaxArg + 2) :
                              /\ FracLeq(a, Quotient(w, std))
                              /\ FracLeq(Quotient(w, std), b)}}
Normal(mean, std, upper, lower) ==
    IF mean > upper THEN {Outcome("ValueError", "Mean is too high", FALSE, 0)}
    ELSE IF mean < lower THEN {Outcome("ValueError", "Mean is too low", FALSE, 0)}
    ELSE IF std = 0 THEN {Outcome("ZeroDivisionError", "", FALSE, 0)}
    ELSE LET a == Quotient(lower - mean, std)
             b == Quotient(upper - mean, std)
         IN  IF ~ FracLess(a, b)
             THEN {Outcome("ValueError", "Domain error in arguments", FALSE, 0)}
             ELSE {Outcome("ok", "", TRUE, mean + w) :
                     w \in {w \in (-MaxArg - 2)..(MaxArg + 2) :
                              /\ FracLeq(a, Quotient(w, std))
                              /\ FracLeq(Quotient(w, std), b)}}

NormalCall(mean, std, upper, lower) ==
    /\ nargs' = [mean |-> mean, std |-> std, upper |-> upper, lower |-> lower]
    /\ nret' \in Normal(mean, std, upper, lower)
    /\ UNCHANGED <<simVars, costVars>>

---------------------------------------------------------------------------
(* The specifications.                                                     *)

CostIdle ==
    /\ heap = [i \in CostIds |-> NoCost]
    /\ costs = [c \in CollNames |-> [n \in Names |-> 0]]
    /\ kind = "None"
    /\ demand = 0
    /\ ret = NoRet

NormalIdle ==
    /\ nargs = NoCall
    /\ nret = NoOutcome

Init == SimIdle /\ CostIdle /\ NormalIdle

\* A center and its cost structure, with the Cost objects its caller holds.
NextCost ==
    \/ \E id \in CostIds, n \in Names \cup {""}, x \in Numbers \cup {NotANumber} :
          NewCost(id, n, x)
    \/ \E id \in CostIds, x \in Numbers \cup {NotANumber} : SetValue(id, x)
    \/ \E id \in CostIds, n \in Names \cup {""} : SetName(id, n)
    \/ \E id \in CostIds \cup {0} : Add("costs", id)
    \/ \E n \in Names : Get("costs", n)
    \/ ReadTotal("costs")

\* A product, its cost structures and its optimum inventory level; the costs
\* are all named alike, so that each structure holds at most one.
ProductNames == {"a"}
ProductColls == CollNames \ {"costs"}

NextProduct ==
    \/ \E k \in Kinds, x \in Numbers \cup {NotANumber} : NewProduct(k, x)
    \/ \E x \in Numbers \cup {NotANumber} : SetDemand(x)
    \/ \E id \in CostIds, n \in ProductNames, x \in Numbers : NewCost(id, n, x)
    \/ \E id \in CostIds, x \in Numbers : SetValue(id, x)
    \/ \E c \in ProductColls, id \in CostIds : Add(c, id)
    \/ ReadOptimum

NextNormal ==
    \E mean \in Args, std \in Args, upper \in Args, lower \in Args :
        NormalCall(mean, std, upper, lower)

SpecSim == Init /\ [][NextSim]_vars
SpecCost == Init /\ [][NextCost]_vars
SpecProduct == Init /\ [][NextProduct]_vars
SpecNormal == Init /\ [][NextNormal]_vars

---------------------------------------------------------------------------
(* The properties.                                                         *)

D == demand
K == IF kind = "Produced" THEN Total("production_costs") ELSE Total("purchase_costs")
h == Total("storage_costs")

\* C1: when demand D, total variable cost K (production costs of a produced
\* product, purchase costs of a purchased one) and total storage cost h are all
\* positive, a read of optimum_inventory_level returns sqrt(2*D*K/h): in fixed
\* point, the value q with (q/Scale)^2 <= 2*D*K/h < ((q+1)/Scale)^2.
C1_EoqFormula ==
    (ret.op = "eoq" /\ D > 0 /\ K > 0 /\ h > 0) =>
        /\ ret.status = "ok"
        /\ ret.val * ret.val * h <= 2 * D * K * Scale * Scale
        /\ (ret.val + 1) * (ret.val + 1) * h > 2 * D * K * Scale * Scale

C1_Witness ==
    /\ ret.op = "eoq" /\ ret.status = "ok"
    /\ kind = "Purchased"
    /\ D = 2 /\ K = 2 /\ h = 1
    /\ ret.val >= 2 * Scale

\* C2: a read of optimum_inventory_level with exactly one of demand, total
\* storage cost and total variable cost equal to 0, the other two positive,
\* raises RuntimeError and returns nothing; each case has its own message.
C2_EoqZeroCases ==
    ret.op = "eoq" =>
        /\ (D = 0 /\ K > 0 /\ h > 0) => (ret.status = "RuntimeError" /\ ret.msg = "demand")
        /\ (D > 0 /\ K > 0 /\ h = 0) => (ret.status = "RuntimeError" /\ ret.msg = "storage")
        /\ (D > 0 /\ K = 0 /\ h > 0) => (ret.status = "RuntimeError" /\ ret.msg = "variable")

C2_Witness ==
    /\ ret.op = "eoq" /\ ret.status = "RuntimeError" /\ ret.msg = "variable"
    /\ D > 0 /\ K = 0 /\ h > 0

OutOfRange == nargs.mean > nargs.upper \/ nargs.mean < nargs.lower
Rejected ==
    /\ nret.status = "ValueError"
    /\ nret.msg \in {"Mean is too high", "Mean is too low"}
    /\ ~ nret.drawn
InRange ==
    /\ nret.status = "ok"
    /\ nargs.lower <= nret.value
    /\ nret.value <= nargs.upper

\* C3, as claimed: every call of normal(mean, std, upper, lower) either fails
\* for a mean outside [lower, upper] before a sample is drawn, or returns a
\* value within [lower, upper].
C3_AsClaimed ==
    nret.status # "none" =>
        \/ OutOfRange /\ Rejected
        \/ ~ OutOfRange /\ InRange

\* C3, amended: a call with the mean outside [lower, upper] fails before a
\* sample is drawn; a call with the mean inside, std > 0 and lower < upper
\* returns a value within [lower, upper].
C3_NormalOutcomes ==
    nret.status # "none" =>
        /\ OutOfRange => Rejected
        /\ (~ OutOfRange /\ nargs.std > 0 /\ nargs.lower < nargs.upper) => InRange

C3_Witness ==
    /\ nret.status = "ok" /\ nret.drawn
    /\ nargs.std = 2
    /\ nargs.lower < nargs.mean /\ nargs.mean < nargs.upper
    /\ nret.value = nargs.upper

AverageIs(n, d) == average[1] * d = n * average[2]

\* C4, as claimed: after a run of a runner constructed with times = N has
\* completed, len(results) = N and average = sum(results) / N (0 when N = 0).
C4_AsClaimed ==
    pc = "returned" =>
        /\ Len(results) = times
        /\ times > 0 => AverageIs(SumSeq(results), times)
        /\ times = 0 => average = <<0, 1>>

\* C4, amended: a completed run has appended N results to those recorded
\* before it; when none were recorded before it (the first run of a new
\* runner), len(results) = N and average = sum(results) / N (0 when N = 0).
C4_RunShape ==
    pc = "returned" =>
        /\ Len(results) = Len(runStart) + times
        /\ runStart = <<>> =>
              /\ Len(results) = times
              /\ times > 0 => AverageIs(SumSeq(results), times)
              /\ times = 0 => average = <<0, 1>>

C4_Witness ==
    /\ pc = "returned" /\ runStart = <<>>
    /\ times = 2 /\ results = <<1, 2>>
    /\ average = <<3, 2>>

\* C5: when fn raises or returns a value that is no Decimal in iteration k,
\* the run aborts: the failure reaches the caller, the value is not appended,
\* results holds the results recorded before the run and the k results of the
\* iterations before k, and fn is not invoked again in that run.
C5_FailFast ==
    /\ [](pc = "raised" =>
            /\ failedAt >= 0
            /\ fnCalls = failedAt + 1
            /\ IsPrefix(runStart, results)
            /\ Len(results) = Len(runStart) + failedAt
            /\ \A i \in 1..Len(results) : results[i] \in DecimalValues)
    /\ [][(pc = "running" /\ pc' = "raised") =>
            /\ exc' \in {"TypeError", "TrialRaised"}
            /\ results' = results
            /\ failedAt' = test_number]_vars
    /\ [][(pc = "raised" /\ runs' = runs) =>
            /\ pc' = "raised"
            /\ fnCalls' = fnCalls
            /\ results' = results]_vars

C5_Witness ==
    /\ pc = "raised" /\ exc = "TypeError"
    /\ failedAt = 1 /\ fnCalls = 2
    /\ runStart = <<2>> /\ results = <<2, 1>>

\* C6: the "with" scope of a runner ends in one of two ways.  With no failure
\* on its way out of the body, the summary (title, trial count, average,
\* maximum, minimum) is printed, once, and the scope is done.  With a failure
\* on its way out, nothing is printed and RuntimeError reaches the caller.
\* No summary is printed while the scope is open.
C6_ScopeOutcome ==
    /\ [](scope = "open" => printed = printedAtEnter)
    /\ [][(scope = "open" /\ scope' # "open") =>
            \/ /\ exc = "None"
               /\ scope' = "done"
               /\ printed' = printed + 1
               /\ out' = <<"summary", SummaryBlock>>
               /\ exc' = "None"
            \/ /\ exc # "None"
               /\ pc = "raised"
               /\ scope' = "failed"
               /\ printed' = printed
               /\ out' = out
               /\ exc' = "RuntimeError"]_vars
    /\ [][(scope = "open" /\ exc # "None") => printed' = printed]_vars

C6_Witness ==
    /\ scope = "failed" /\ exc = "RuntimeError"
    /\ pc = "raised" /\ failedAt = 1
    /\ printed = 0

\* C7: results only grows by appending: every step leaves it as it is or
\* appends one element, and it always equals the sequence of Decimal values
\* the successful fn calls returned, in call order.
C7_AppendOnly ==
    /\ [](results = accepted)
    /\ [][\/ results' = results
          \/ \E v \in DecimalValues : results' = Append(results, v)]_vars

C7_Witness ==
    /\ results = <<1, 2, 2>>
    /\ runs = 2 /\ pc = "raised"
    /\ out[1] = "maximum" /\ out[2] = 2
    /\ printed = 1

\* C8: Costs.get(name) never fails: it returns the stored Cost, or a new Cost
\* of that name and value 0 when none is stored.
C8_GetNeverFails ==
    ret.op = "get" => ret.status = "ok"

\* C9: total is the sum of the values of the costs the structure holds, 0 for
\* an empty structure; add(cost) puts the cost in the place of the one stored
\* under its name, so total changes by the new value less the replaced one.
C9_TotalAfterAdd ==
    /\ [](\A c \in CollNames : (\A n \in Names : costs[c][n] = 0) => Total(c) = 0)
    /\ [][\A c \in CollNames, id \in CostIds :
            (ret'.op = "add" /\ ret'.status = "ok" /\ ret'.msg = c /\ ret'.val = id) =>
                LET key == heap[id].name
                    old == IF costs[c][key] = 0 THEN 0 ELSE heap[costs[c][key]].value
                IN  /\ costs'[c][key] = id
                    /\ \A n \in Names \ {key} : costs'[c][n] = costs[c][n]
                    /\ Total(c)' = Total(c) - old + heap[id].value]_vars

C9_Witness ==
    /\ ret.op = "add" /\ ret.val = 2
    /\ heap[1].name = "a" /\ heap[2].name = "a"
    /\ heap[1].value = 1 /\ heap[2].value = 2
    /\ costs["costs"]["a"] = 2
    /\ Total("costs") = 2

\* C10: the value of every Cost is >= 0 in every reachable state.
C10_ValueNonNegative ==
    \A id \in CostIds : heap[id].value >= 0

\* C11: a cost structure holds at most one Cost per name: no two different
\* Cost objects it holds have the same name.
C11_OneCostPerName ==
    \A c \in CollNames : \A n1 \in Names, n2 \in Names :
        (/\ n1 # n2
         /\ costs[c][n1] # 0
         /\ costs[c][n2] # 0
         /\ costs[c][n1] # costs[c][n2])
            => heap[costs[c][n1]].name # heap[costs[c][n2]].name

\* C12: whenever optimum_inventory_level is read, the demand, the total
\* variable cost and the total storage cost of the product are each >= 0.
C12_EoqInputsNonNegative ==
    ret.op = "eoq" => (D >= 0 /\ K >= 0 /\ h >= 0)

===========================================================================
